---- MODULE Spec2Model ----
(***************************************************************************)
(* A model of the tokenizer of src/mod.ts.                                 *)
(*                                                                         *)
(* A character is a one-character string, a text is a sequence of          *)
(* characters.  One run of tokenizer(text, options) is one behaviour: Init *)
(* is the state after lines 146-157, Step is one iteration of the for loop *)
(* of lines 189-256 and Finish is lines 258-264.  Again is a second call   *)
(* with the same text and validators; previous is what the first call      *)
(* returned and steps counts the steps the current call has taken.         *)
(***************************************************************************)
EXTENDS Integers, Sequences, FiniteSets

VARIABLES text, policy, insertEof, i, line, pos, token, tokens, calls, pc,
          run, previous, steps

vars == <<text, policy, insertEof, i, line, pos, token, tokens, calls, pc,
          run, previous, steps>>

----------------------------------------------------------------------------
(* Bounds of the input families.                                           *)

MaxLen == 4
MaxStrLen == 5
MaxWordLen == 5
MaxNumLen == 5
MaxGroupLen == 8
MaxSepLen == 5
MaxTwiceLen == 3
MaxPriLen == 3

----------------------------------------------------------------------------
(* Characters.                                                             *)

Chars == {"\"", "'", "\\", "a", "Z", "0", "1", ".", "_", " ", "\n", "+", "(", "@"}

charCodeAt(c) ==
  CASE c = "\n" -> 10
    [] c = " "  -> 32
    [] c = "\"" -> 34
    [] c = "'"  -> 39
    [] c = "("  -> 40
    [] c = "+"  -> 43
    [] c = "."  -> 46
    [] c = "0"  -> 48
    [] c = "1"  -> 49
    [] c = "9"  -> 57
    [] c = "@"  -> 64
    [] c = "A"  -> 65
    [] c = "Z"  -> 90
    [] c = "\\" -> 92
    [] c = "_"  -> 95
    [] c = "a"  -> 97
    [] c = "z"  -> 122

minLetter1 == charCodeAt("a")
maxLetter1 == charCodeAt("z")
minLetter2 == charCodeAt("A")
maxLetter2 == charCodeAt("Z")
minNumber == charCodeAt("0")
maxNumber == charCodeAt("9")

_isAlpha(char) ==
  LET charCode == charCodeAt(char)
  IN  \/ (charCode >= minLetter1 /\ charCode <= maxLetter1)
      \/ (charCode >= minLetter2 /\ charCode <= maxLetter2)

_isNumeric(char) ==
  LET charCode == charCodeAt(char)
  IN  charCode >= minNumber /\ charCode <= maxNumber

(* The members of the literal of line 21; its one non-ASCII member is not  *)
(* a character of Chars.                                                   *)
_isSeparator(char) ==
  char \in {"[", "]", "(", ")", "{", "}", ".", "#", "?", ":", ";", ",", " "}

_isSpace(char) == char \in {" ", "\t", "\r", "\n"}

_isOperator(char) == char \in {"+", "-", "*", "/", "^", "%", "&", "=", "<", ">"}

----------------------------------------------------------------------------
(* Token types (the enum of lines 32-45) and the value find() returns when *)
(* no element matches.                                                     *)

Unknown == "Unknown"
String == "String"
Number == "Number"
Identifier == "Identifier"
Operator == "Operator"
Separator == "Separator"
Space == "Space"
Instruction == "Instruction"
EOF == "EOF"
undefined == "undefined"

TokenType == {Unknown, String, Number, Identifier, Operator, Separator, Space,
              Instruction, EOF}

----------------------------------------------------------------------------
(* The external string hash: a fixed function of the text, the character's *)
(* code for a one-character text.                                          *)

RECURSIVE getStringUid(_)
getStringUid(t) ==
  IF t = <<>> THEN 0
  ELSE (getStringUid(SubSeq(t, 1, Len(t) - 1)) * 31 + charCodeAt(t[Len(t)])) % 65521

----------------------------------------------------------------------------
(* Policies: a validator is the set of characters (for isInstruction: of   *)
(* texts) it accepts.  DefaultPolicy is what lines 147-154 select when no  *)
(* validator is given.                                                     *)

DefaultPolicy ==
  [ isSpace           |-> {c \in Chars : _isSpace(c)},
    isSeparator       |-> {c \in Chars : _isSeparator(c)},
    isNumber          |-> {c \in Chars : _isNumeric(c)},
    isCharacter       |-> {c \in Chars : _isAlpha(c)},
    isOperator        |-> {c \in Chars : _isOperator(c)},
    isString          |-> {c \in Chars : c = "\""},
    isInstruction     |-> {},
    isNumberSeparator |-> {c \in Chars : c = "."} ]

(* isNumberSeparator: (char) => char === "_"                               *)
UnderscorePolicy == [DefaultPolicy EXCEPT !.isNumberSeparator = {"_"}]

(* isNumberSeparator: (char) => char === "_" || char === "."               *)
UnderscoreDotPolicy == [DefaultPolicy EXCEPT !.isNumberSeparator = {"_", "."}]

(* The validators of the test "tokenizer - custom validators".             *)
AllSeparatorPolicy ==
  [DefaultPolicy EXCEPT !.isCharacter = {}, !.isNumber = {}, !.isSpace = {},
                        !.isOperator = {}, !.isSeparator = Chars]

(* Several quote characters (the README's isString) and a list of          *)
(* instructions, as in the instruction validator tests.                    *)
InstructionPolicy ==
  [DefaultPolicy EXCEPT !.isString = {"'", "\""},
                        !.isInstruction = {<<"a">>, <<"Z">>, <<"a", "1">>, <<"1">>,
                                           <<"+">>, <<".">>, <<" ">>, <<"@">>,
                                           <<"\"", "\"">>, <<"a", "Z">>}]

(* Validators that overlap: 1, Z and + are separators as well as a digit,  *)
(* a letter and an operator, a is a digit as well as a letter, _ a letter  *)
(* as well as an operator, and ., 1 and @ are number separators.           *)
OverlapPolicy ==
  [DefaultPolicy EXCEPT !.isSeparator = @ \cup {"1", "Z", "+"},
                        !.isNumber = @ \cup {"a"},
                        !.isCharacter = @ \cup {"_"},
                        !.isOperator = @ \cup {"_"},
                        !.isNumberSeparator = {".", "1", "@"}]

isSpace(char) == char \in policy.isSpace
isSeparator(char) == char \in policy.isSeparator
isNumeric(char) == char \in policy.isNumber
isAlpha(char) == char \in policy.isCharacter
isOperator(char) == char \in policy.isOperator
isString(char) == char \in policy.isString
isInstruction(t) == t \in policy.isInstruction
isNumberSeparator(char) == char \in policy.isNumberSeparator

----------------------------------------------------------------------------
(* String and array helpers of the JavaScript runtime.                     *)

endsWith(t, char) == Len(t) > 0 /\ t[Len(t)] = char
startsWith(t, char) == Len(t) > 0 /\ t[1] = char
includes(types, type) == \E k \in DOMAIN types : types[k] = type

(* types.find((type) => type !== TokenType.Unknown)                        *)
find(types) ==
  IF \E k \in DOMAIN types : types[k] /= Unknown
  THEN types[CHOOSE k \in DOMAIN types :
               /\ types[k] /= Unknown
               /\ \A j \in 1..(k - 1) : types[j] = Unknown]
  ELSE undefined

----------------------------------------------------------------------------
(* The closures of tokenizer.  m is the mutable state they share:          *)
(* [token, tokens, line, pos, calls]; calls is the log of the isInstruction *)
(* invocations (arguments, result, index of the token being pushed).       *)

resetTokenInPlace(m) ==
  LET empty == [type |-> Unknown, text |-> <<>>, uid |-> 0,
                line |-> m.line, pos |-> m.pos]
  IN  [m EXCEPT !.token = empty,
                !.tokens = IF @ = <<>> THEN @ ELSE [@ EXCEPT ![Len(@)] = empty]]

resetToken(m) ==
  [m EXCEPT !.token = [type |-> Unknown, text |-> <<>>, uid |-> 0,
                       line |-> m.line, pos |-> m.pos]]

pushTokenAnyType(m) ==
  LET promoted == isInstruction(m.token.text)
      t1 == IF promoted THEN [m.token EXCEPT !.type = Instruction] ELSE m.token
      t2 == [t1 EXCEPT !.uid = getStringUid(t1.text)]
  IN  resetToken([m EXCEPT !.tokens = Append(@, t2)])

pushTokenStaleUid(m) ==
  LET asked == m.token.type = Identifier
      promoted == asked /\ isInstruction(m.token.text)
      t1 == IF promoted THEN [m.token EXCEPT !.type = Instruction] ELSE m.token
      call == [text |-> m.token.text, line |-> m.line, pos |-> m.pos,
               result |-> promoted, index |-> Len(m.tokens) + 1]
  IN  resetToken([m EXCEPT !.tokens = Append(@, t1),
                           !.calls = IF asked THEN Append(@, call) ELSE @])

pushTokenOwnPosition(m) ==
  LET asked == m.token.type = Identifier
      promoted == asked /\ isInstruction(m.token.text)
      t1 == IF promoted THEN [m.token EXCEPT !.type = Instruction] ELSE m.token
      t2 == [t1 EXCEPT !.uid = getStringUid(t1.text)]
      call == [text |-> m.token.text, line |-> m.token.line, pos |-> m.token.pos,
               result |-> promoted, index |-> Len(m.tokens) + 1]
  IN  resetToken([m EXCEPT !.tokens = Append(@, t2),
                           !.calls = IF asked THEN Append(@, call) ELSE @])

pushToken(m) ==
  LET asked == m.token.type = Identifier
      promoted == asked /\ isInstruction(m.token.text)
      t1 == IF promoted THEN [m.token EXCEPT !.type = Instruction] ELSE m.token
      t2 == [t1 EXCEPT !.uid = getStringUid(t1.text)]
      call == [text |-> m.token.text, line |-> m.line, pos |-> m.pos,
               result |-> promoted, index |-> Len(m.tokens) + 1]
  IN  resetToken([m EXCEPT !.tokens = Append(@, t2),
                           !.calls = IF asked THEN Append(@, call) ELSE @])

pushIfNotTypesAlways(m, types) ==
  [pushToken(m) EXCEPT !.token.type = find(types)]

pushIfNotTypesUnknownOnly(m, types) ==
  LET m1 == IF m.token.type /= Unknown THEN pushToken(m) ELSE m
  IN  [m1 EXCEPT !.token.type = find(types)]

pushIfNotTypes(m, types) ==
  LET m1 == IF ~includes(types, m.token.type) THEN pushToken(m) ELSE m
  IN  [m1 EXCEPT !.token.type = find(types)]

(* The closure returns true or undefined; nothing reads its result.        *)
concatIfTypes(m, types, char) ==
  IF includes(types, m.token.type)
  THEN [m EXCEPT !.token.text = Append(@, char),
                 !.token.uid = getStringUid(Append(m.token.text, char)),
                 !.token.type = find(types)]
  ELSE m

----------------------------------------------------------------------------
(* The conditions and type choices of the switch of lines 197-253.         *)

escapedNever(m) == FALSE

(* line 199 *)
escaped(m) == endsWith(m.token.text, "\\")

closedAtOnce(m, char) ==
  /\ m.token.type = String
  /\ startsWith(m.token.text, char)
  /\ endsWith(m.token.text, char)

closedByAny(m, char) ==
  /\ m.token.type = String
  /\ Len(m.token.text) > 1
  /\ endsWith(m.token.text, char)

(* line 207 *)
closed(m, char) ==
  /\ m.token.type = String
  /\ Len(m.token.text) > 1
  /\ startsWith(m.token.text, char)
  /\ endsWith(m.token.text, char)

inStringNever(m) == FALSE

(* line 211 *)
inString(m) == m.token.type = String

continuesNumberNever(m, char) == FALSE

(* lines 219 and 246 *)
continuesNumber(m, char) == isNumberSeparator(char) /\ m.token.type = Number

numericTypeNumber(m) == Number

(* line 229 *)
numericType(m) == IF m.token.type = Identifier THEN Identifier ELSE Number

alphaTypeIdentifier(m) == Identifier

(* line 236 *)
alphaType(m) == IF m.token.type = Number THEN Number ELSE Identifier

accumulateSplit(m, type, char) ==
  LET m1 == IF m.token.type /= Unknown THEN pushToken(m) ELSE m
  IN  concatIfTypes([m1 EXCEPT !.token.type = type], <<type>>, char)

(* pushIfNotTypes([Unknown, type]) followed by concatIfTypes([type], char) *)
accumulate(m, type, char) ==
  concatIfTypes(pushIfNotTypes(m, <<Unknown, type>>), <<type>>, char)

(* lines 204-209 *)
stringDelimiter(m, char) ==
  LET m1 == pushIfNotTypes(m, <<Unknown, String>>)
      m2 == concatIfTypes(m1, <<String, Unknown>>, char)
  IN  IF closed(m2, char) THEN pushToken(m2) ELSE m2

(* line 255 *)
nextPos(m) == [m EXCEPT !.pos = @ + 1]

(* lines 192-195 *)
newline(m, char) ==
  IF char = "\n" THEN [m EXCEPT !.line = @ + 1, !.pos = 1] ELSE m

iterationSeparatorFirst(m0, char) ==
  LET m == newline(m0, char)
  IN  IF isString(char)
      THEN IF escaped(m)
           THEN [m EXCEPT !.token.text = Append(@, char)]
           ELSE nextPos(stringDelimiter(m, char))
      ELSE IF inString(m)
      THEN nextPos(concatIfTypes(m, <<String>>, char))
      ELSE IF isSeparator(char)
      THEN IF continuesNumber(m, char)
           THEN nextPos(accumulate(m, Number, char))
           ELSE nextPos(accumulate(m, Separator, char))
      ELSE IF isSpace(char)
      THEN nextPos(accumulate(m, Space, char))
      ELSE IF isNumeric(char)
      THEN nextPos(accumulate(m, numericType(m), char))
      ELSE IF isAlpha(char)
      THEN nextPos(accumulate(m, alphaType(m), char))
      ELSE IF isOperator(char)
      THEN nextPos(accumulate(m, Operator, char))
      ELSE IF continuesNumber(m, char)
      THEN nextPos(accumulate(m, Number, char))
      ELSE nextPos(accumulate(m, Identifier, char))

(* One iteration of the loop, lines 190-255.  The escape path of lines     *)
(* 199-202 leaves by continue, before line 255.                            *)
iteration(m0, char) ==
  LET m == newline(m0, char)
  IN  IF isString(char)
      THEN IF escaped(m)
           THEN [m EXCEPT !.token.text = Append(@, char)]
           ELSE nextPos(stringDelimiter(m, char))
      ELSE IF inString(m)
      THEN nextPos(concatIfTypes(m, <<String>>, char))
      ELSE IF isSpace(char)
      THEN nextPos(accumulate(m, Space, char))
      ELSE IF isSeparator(char)
      THEN IF continuesNumber(m, char)
           THEN nextPos(accumulate(m, Number, char))
           ELSE nextPos(accumulate(m, Separator, char))
      ELSE IF isNumeric(char)
      THEN nextPos(accumulate(m, numericType(m), char))
      ELSE IF isAlpha(char)
      THEN nextPos(accumulate(m, alphaType(m), char))
      ELSE IF isOperator(char)
      THEN nextPos(accumulate(m, Operator, char))
      ELSE IF continuesNumber(m, char)
      THEN nextPos(accumulate(m, Number, char))
      ELSE nextPos(accumulate(m, Identifier, char))

finishNoFlush(m) ==
  IF insertEof
  THEN [m EXCEPT !.tokens = Append(@, [type |-> EOF, text |-> <<>>, uid |-> 0,
                                       line |-> 0, pos |-> 0])]
  ELSE m

finishAlwaysPush(m) ==
  LET m1 == pushToken(m)
  IN  IF insertEof
      THEN [m1 EXCEPT !.tokens = Append(@, [type |-> EOF, text |-> <<>>, uid |-> 0,
                                            line |-> 0, pos |-> 0])]
      ELSE m1

finishEofFirst(m) ==
  LET m1 == IF insertEof
            THEN [m EXCEPT !.tokens = Append(@, [type |-> EOF, text |-> <<>>,
                                                 uid |-> 0, line |-> 0, pos |-> 0])]
            ELSE m
  IN  pushIfNotTypes(m1, <<Unknown>>)

(* lines 258-262 *)
finish(m) ==
  LET m1 == pushIfNotTypes(m, <<Unknown>>)
  IN  IF insertEof
      THEN [m1 EXCEPT !.tokens = Append(@, [type |-> EOF, text |-> <<>>, uid |-> 0,
                                            line |-> 0, pos |-> 0])]
      ELSE m1

----------------------------------------------------------------------------
(* The input families.                                                     *)

RECURSIVE Texts(_, _)
Texts(alphabet, n) ==
  IF n = 0 THEN {<<>>}
  ELSE LET shorter == Texts(alphabet, n - 1)
       IN  shorter \cup {Append(t, c) : t \in {s \in shorter : Len(s) = n - 1},
                                        c \in alphabet}

MixedChars == {"\"", "\\", "a", "1", ".", " ", "\n", "+"}
StringChars == {"\"", "'", "\\", "a", "\n"}
WordChars == {"a", "Z", "1", " ", "\n"}
NumberChars == {"1", ".", "_"}
GroupChars == {"0", "_"}
SeparatorChars == {"(", ".", "a", "1", " ", "\""}
PriorityChars == {"\"", "\\", " ", ".", "0", "1", "a", "Z", "+", "_", "@"}

----------------------------------------------------------------------------
(* The state machine.                                                      *)

Start(inputs, policies) ==
  /\ text \in inputs
  /\ policy \in policies
  /\ insertEof \in BOOLEAN
  /\ i = 0
  /\ line = 1
  /\ pos = 1
  /\ token = [type |-> Unknown, text |-> <<>>, uid |-> 0, line |-> 1, pos |-> 1]
  /\ tokens = <<>>
  /\ calls = <<>>
  /\ pc = "loop"
  /\ run = 1
  /\ previous = [tokens |-> <<>>, insertEof |-> FALSE]
  /\ steps = 0

Init ==
  Start(Texts(MixedChars, MaxLen),
        {DefaultPolicy, UnderscorePolicy, AllSeparatorPolicy, InstructionPolicy})

InitString == Start(Texts(StringChars, MaxStrLen), {DefaultPolicy, InstructionPolicy})

InitWord == Start(Texts(WordChars, MaxWordLen), {DefaultPolicy})

InitNumber ==
  Start({<<"1">> \o t : t \in Texts(NumberChars, MaxNumLen)},
        {DefaultPolicy, UnderscorePolicy, UnderscoreDotPolicy})

InitGroup == Start({<<"1">> \o t : t \in Texts(GroupChars, MaxGroupLen)}, {DefaultPolicy})

InitSeparator ==
  Start(Texts(SeparatorChars, MaxSepLen), {DefaultPolicy, AllSeparatorPolicy})

InitTwice ==
  Start(Texts(MixedChars, MaxTwiceLen),
        {DefaultPolicy, UnderscorePolicy, AllSeparatorPolicy, InstructionPolicy})

InitPriority == Start(Texts(PriorityChars, MaxPriLen), {DefaultPolicy, OverlapPolicy})

machine == [token |-> token, tokens |-> tokens, line |-> line, pos |-> pos,
            calls |-> calls]

loopConditionShort == i < Len(text) - 1

(* line 189 *)
loopCondition == i < Len(text)

Step ==
  /\ pc = "loop"
  /\ loopCondition
  /\ LET m == iteration(machine, text[i + 1])
     IN  /\ token' = m.token
         /\ tokens' = m.tokens
         /\ line' = m.line
         /\ pos' = m.pos
         /\ calls' = m.calls
  /\ i' = i + 1
  /\ steps' = steps + 1
  /\ UNCHANGED <<text, policy, insertEof, pc, run, previous>>

Finish ==
  /\ pc = "loop"
  /\ ~loopCondition
  /\ LET m == finish(machine)
     IN  /\ token' = m.token
         /\ tokens' = m.tokens
         /\ calls' = m.calls
  /\ pc' = "done"
  /\ steps' = steps + 1
  /\ UNCHANGED <<text, policy, insertEof, i, line, pos, run, previous>>

freshKeepsLine(m) ==
  [token |-> [type |-> Unknown, text |-> <<>>, uid |-> 0, line |-> m.line,
              pos |-> m.pos],
   tokens |-> <<>>, line |-> m.line, pos |-> m.pos, calls |-> <<>>]

(* The locals of a call, lines 146-157: none of them is taken from the     *)
(* call before, whose state is m.                                          *)
fresh(m) ==
  [token |-> [type |-> Unknown, text |-> <<>>, uid |-> 0, line |-> 1, pos |-> 1],
   tokens |-> <<>>, line |-> 1, pos |-> 1, calls |-> <<>>]

(* A second call of tokenizer with the same text and validators, and any   *)
(* insertEof.                                                              *)
Again ==
  /\ pc = "done"
  /\ run = 1
  /\ run' = 2
  /\ previous' = [tokens |-> tokens, insertEof |-> insertEof]
  /\ insertEof' \in BOOLEAN
  /\ LET m == fresh(machine)
     IN  /\ token' = m.token
         /\ tokens' = m.tokens
         /\ line' = m.line
         /\ pos' = m.pos
         /\ calls' = m.calls
  /\ i' = 0
  /\ pc' = "loop"
  /\ steps' = 0
  /\ UNCHANGED <<text, policy>>

Next == Step \/ Finish

NextTwice == Step \/ Finish \/ Again

Spec == Init /\ [][Next]_vars
SpecString == InitString /\ [][Next]_vars
SpecWord == InitWord /\ [][Next]_vars
SpecNumber == InitNumber /\ [][Next]_vars
SpecGroup == InitGroup /\ [][Next]_vars
SpecSeparator == InitSeparator /\ [][Next]_vars
SpecTwice == InitTwice /\ [][NextTwice]_vars
SpecPriority == InitPriority /\ [][Next]_vars

----------------------------------------------------------------------------
(* What the claims speak of.                                               *)

Returned == pc = "done"

(* The returned tokens without the EOF token.                              *)
Emitted == SelectSeq(tokens, LAMBDA t : t.type /= EOF)

RECURSIVE Concat(_)
Concat(ts) == IF ts = <<>> THEN <<>> ELSE ts[1].text \o Concat(Tail(ts))

(* The index in text of the first character of the k-th token, when the    *)
(* tokens partition the text.                                              *)
Offset(ts, k) == 1 + Len(Concat(SubSeq(ts, 1, k - 1)))

Max(S) == CHOOSE x \in S : \A y \in S : y <= x
Min(S) == CHOOSE x \in S : \A y \in S : x <= y

Newlines(k) == {j \in 1..k : text[j] = "\n"}

(* Line and column of the k-th character of text: a newline is the first   *)
(* character of the line it opens.                                         *)
LineOf(k) == 1 + Cardinality(Newlines(k))
ColumnOf(k) == IF Newlines(k) = {} THEN k ELSE k - Max(Newlines(k)) + 1

(* The number of consecutive backslashes right before the j-th character.  *)
RECURSIVE Backslashes(_, _)
Backslashes(t, j) ==
  IF j > 1 /\ t[j - 1] = "\\" THEN 1 + Backslashes(t, j - 1) ELSE 0

IsCall(c, k) == c.index = k /\ c.text = tokens[k].text

Asked(k, result) == \E n \in DOMAIN calls : IsCall(calls[n], k) /\ calls[n].result = result

----------------------------------------------------------------------------
(* C1: the texts of the returned tokens, the EOF token left out, in order  *)
(* and concatenated, are the input.                                        *)
RoundTrip == Returned => Concat(Emitted) = text

(* An escaped delimiter was swallowed into a token, a token was pushed in  *)
(* the loop and another one by the final flush.                            *)
RoundTripWitness ==
  /\ Returned
  /\ text = <<"a", "\\", "\"", "+">>
  /\ Len(Emitted) = 2
  /\ Emitted[1].text = <<"a", "\\", "\"">>

(* C2: the line of every returned token but EOF is 1 plus the number of    *)
(* newlines at or before its first character.                              *)
LineOfFirstChar ==
  Returned =>
    \A k \in DOMAIN Emitted : Emitted[k].line = LineOf(Offset(Emitted, k))

(* C3: the pos of every returned token but EOF is the column of its first  *)
(* character.                                                              *)
ColumnOfFirstChar ==
  Returned =>
    \A k \in DOMAIN Emitted : Emitted[k].pos = ColumnOf(Offset(Emitted, k))

(* The input starts and ends with the quote and every quote between them,  *)
(* but not the last one, follows a backslash.                              *)
QuotedLiteral(t) ==
  /\ Len(t) >= 1
  /\ t[1] = "\""
  /\ t[Len(t)] = "\""
  /\ \A j \in 2..(Len(t) - 1) : t[j] = "\"" => t[j - 1] = "\\"
  /\ Len(t) >= 2 => t[Len(t) - 1] /= "\\"

(* C4: with the default policy a quoted literal whose inner quotes are all *)
(* escaped is returned as one String token, the whole input.               *)
EscapedQuotesStayInside ==
  (Returned /\ policy = DefaultPolicy /\ QuotedLiteral(text)) =>
    /\ Len(Emitted) = 1
    /\ Emitted[1].type = String
    /\ Emitted[1].text = text

EscapedQuotesWitness ==
  /\ Returned
  /\ policy = DefaultPolicy
  /\ text = <<"\"", "\\", "\"", "a", "\"">>
  /\ QuotedLiteral(text)
  /\ Len(Emitted) = 1
  /\ Emitted[1].type = String

(* The quotes after the first character that an even number of backslashes *)
(* (none included) precedes.                                               *)
Closers(t) == {j \in 2..Len(t) : t[j] = "\"" /\ Backslashes(t, j) % 2 = 0}

(* C5: with the default policy a String opened by the first character ends *)
(* at the first quote that an even number of backslashes precedes, and     *)
(* only a quote after an odd number of backslashes is swallowed.           *)
BackslashesPairOff ==
  (Returned /\ policy = DefaultPolicy /\ Len(text) >= 1 /\ text[1] = "\"") =>
    /\ Emitted[1].type = String
    /\ Emitted[1].text = IF Closers(text) = {} THEN text
                         ELSE SubSeq(text, 1, Min(Closers(text)))

(* The input starts with a delimiter of the policy and every later         *)
(* occurrence of that delimiter follows a backslash.                       *)
Unterminated(t) ==
  /\ Len(t) >= 1
  /\ isString(t[1])
  /\ \A j \in 2..Len(t) : t[j] = t[1] => t[j - 1] = "\\"

(* C6: an unterminated string is returned as one String token, the whole   *)
(* input, followed by EOF when insertEof is set.                           *)
UnterminatedIsOneString ==
  (Returned /\ Unterminated(text)) =>
    /\ Len(tokens) = IF insertEof THEN 2 ELSE 1
    /\ tokens[1].type = String
    /\ tokens[1].text = text
    /\ insertEof => tokens[2].type = EOF

(* The other delimiter, a newline and a dangling backslash are absorbed.   *)
UnterminatedWitness ==
  /\ Returned
  /\ insertEof
  /\ text = <<"\"", "'", "\n", "a", "\\">>
  /\ Unterminated(text)
  /\ Len(tokens) = 2
  /\ tokens[1].text = text

(* text[s..e] is a run of letters and digits between whitespace or the     *)
(* ends of the input.                                                      *)
Word(s, e) ==
  /\ s <= e
  /\ \A j \in s..e : _isAlpha(text[j]) \/ _isNumeric(text[j])
  /\ s = 1 \/ _isSpace(text[s - 1])
  /\ e = Len(text) \/ _isSpace(text[e + 1])

(* C7: with the default policy, in an input of letters, digits and         *)
(* whitespace, every run of letters and digits is one token: an Identifier *)
(* when it starts with a letter, a Number when it starts with a digit.     *)
WordIsOneToken ==
  (Returned /\ policy = DefaultPolicy) =>
    \A s, e \in 1..Len(text) :
      Word(s, e) =>
        \E k \in DOMAIN Emitted :
          /\ Offset(Emitted, k) = s
          /\ Emitted[k].text = SubSeq(text, s, e)
          /\ Emitted[k].type = IF _isAlpha(text[s]) THEN Identifier ELSE Number

WordWitness ==
  /\ Returned
  /\ text = <<"1", "a", " ", "a", "1">>
  /\ Word(1, 2)
  /\ Word(4, 5)
  /\ Len(Emitted) = 3
  /\ Emitted[1].type = Number
  /\ Emitted[3].type = Identifier

(* The input starts with a digit and goes on with digits and characters    *)
(* the policy accepts as number separators.                                *)
Numeral(t) ==
  /\ Len(t) >= 1
  /\ isNumeric(t[1])
  /\ \A j \in 2..Len(t) : isNumeric(t[j]) \/ isNumberSeparator(t[j])

Grouped == <<"1", "_", "0", "0", "0", "_", "0", "0", "0">>

Underscores(t) == {j \in 1..Len(t) : t[j] = "_"}
Digits(t) == {j \in 1..Len(t) : _isNumeric(t[j])}

(* C9 as stated: with the default policy no token of 1_000_000 holds both  *)
(* an underscore and a digit.                                              *)
SplitsAtEveryUnderscore ==
  (Returned /\ policy = DefaultPolicy /\ text = Grouped) =>
    \A k \in DOMAIN Emitted :
      Underscores(Emitted[k].text) = {} \/ Digits(Emitted[k].text) = {}

(* C9 as amended: with the default policy a digit followed by digits and   *)
(* underscores, 1_000_000 among them, is split before its first underscore *)
(* only: a Number up to there, then one Identifier with all the rest.      *)
SplitsAtFirstUnderscore ==
  (Returned /\ policy = DefaultPolicy) =>
    IF Underscores(text) = {}
    THEN /\ Len(Emitted) = 1
         /\ Emitted[1].type = Number
         /\ Emitted[1].text = text
    ELSE LET u == Min(Underscores(text))
         IN  /\ Len(Emitted) = 2
             /\ Emitted[1].type = Number
             /\ Emitted[1].text = SubSeq(text, 1, u - 1)
             /\ Emitted[2].type = Identifier
             /\ Emitted[2].text = SubSeq(text, u, Len(text))

SplitsAtFirstUnderscoreWitness ==
  /\ Returned
  /\ text = Grouped
  /\ Len(Emitted) = 2
  /\ Emitted[1].text = <<"1">>
  /\ Emitted[2].type = Identifier
  /\ Emitted[2].text = <<"_", "0", "0", "0", "_", "0", "0", "0">>

(* C10: a pushed token is an Instruction exactly when it was accumulated   *)
(* as an Identifier and isInstruction returned true for its text; for a    *)
(* pushed Identifier it returned false; with the default policy there is   *)
(* no Instruction.                                                         *)
InstructionPromotion ==
  \A k \in DOMAIN tokens :
    /\ tokens[k].type = Instruction <=> Asked(k, TRUE)
    /\ tokens[k].type = Identifier <=> Asked(k, FALSE)
    /\ tokens[k].type = Instruction => isInstruction(tokens[k].text)
    /\ tokens[k].type = Identifier => ~isInstruction(tokens[k].text)
    /\ policy = DefaultPolicy => tokens[k].type /= Instruction

(* An Instruction next to an Operator and a Number whose texts the         *)
(* validator accepts as well.                                              *)
InstructionPromotionWitness ==
  /\ Returned
  /\ text = <<"a", "+", "1">>
  /\ \A k \in 1..3 : isInstruction(tokens[k].text)
  /\ tokens[1].type = Instruction
  /\ tokens[2].type = Operator
  /\ tokens[3].type = Number

(* A character of a separator run: a separator that is neither whitespace  *)
(* nor a string delimiter.                                                 *)
SeparatorRun(c) == isSeparator(c) /\ ~isSpace(c) /\ ~isString(c)

(* C11: a run of adjacent separator characters is one Separator token:     *)
(* such a character is in a Separator token unless a String or, as a       *)
(* number separator, a Number holds it; a Separator token holds separators *)
(* only, none of them whitespace, and no Separator token follows it.       *)
SeparatorsMerge ==
  Returned =>
    \A k \in DOMAIN Emitted :
      LET t == Emitted[k]
      IN  /\ t.type = Separator =>
               /\ \A j \in DOMAIN t.text : isSeparator(t.text[j]) /\ ~isSpace(t.text[j])
               /\ k < Len(Emitted) => Emitted[k + 1].type /= Separator
          /\ \A j \in DOMAIN t.text :
               SeparatorRun(t.text[j]) =>
                 \/ t.type = Separator
                 \/ t.type = String
                 \/ t.type = Number /\ isNumberSeparator(t.text[j])

(* a.(a( : the run .( is one token, the identifiers around it are others.  *)
SeparatorsMergeWitness ==
  /\ Returned
  /\ policy = DefaultPolicy
  /\ text = <<"a", ".", "(", "a", "(">>
  /\ Len(Emitted) = 4
  /\ Emitted[1].type = Identifier
  /\ Emitted[2].type = Separator
  /\ Emitted[2].text = <<".", "(">>
  /\ Emitted[3].text = <<"a">>

(* The token of line 261.                                                  *)
EofToken == [type |-> EOF, text |-> <<>>, uid |-> 0, line |-> 0, pos |-> 0]

(* C12: an EOF token is returned exactly when insertEof is set; it is the  *)
(* last token, with empty text and line, pos and uid 0; the tokens before  *)
(* it are the ones a call without insertEof returns for the same input.    *)
EofIsLast ==
  Returned =>
    /\ (\E k \in DOMAIN tokens : tokens[k].type = EOF) <=> insertEof
    /\ \A k \in DOMAIN tokens :
         tokens[k].type = EOF => k = Len(tokens) /\ tokens[k] = EofToken
    /\ (run = 2 /\ insertEof /\ ~previous.insertEof) =>
         tokens = Append(previous.tokens, EofToken)
    /\ (run = 2 /\ ~insertEof /\ previous.insertEof) =>
         previous.tokens = Append(tokens, EofToken)

(* A call without and then a call with insertEof, the last token coming    *)
(* from the final flush.                                                   *)
EofIsLastWitness ==
  /\ Returned
  /\ run = 2
  /\ insertEof
  /\ ~previous.insertEof
  /\ text = <<"a", " ", "1">>
  /\ Len(previous.tokens) = 3
  /\ Len(tokens) = 4
  /\ tokens[4].type = EOF

(* C13: for the empty input nothing is returned but, when insertEof is    *)
(* set, the EOF token; no iteration of the loop runs, so no character      *)
(* validator is asked, and isInstruction is not called.                    *)
EmptyInput ==
  (Returned /\ text = <<>>) =>
    /\ tokens = IF insertEof THEN <<EofToken>> ELSE <<>>
    /\ i = 0
    /\ calls = <<>>

EmptyInputWitness ==
  /\ Returned
  /\ text = <<>>
  /\ policy = AllSeparatorPolicy
  /\ insertEof
  /\ Len(tokens) = 1
  /\ tokens[1].type = EOF

(* C14: the uid of every pushed token but EOF is the hash of its text, so  *)
(* tokens of equal text have equal uid.                                    *)
UidIsHash ==
  /\ \A k \in DOMAIN tokens :
       tokens[k].type /= EOF => tokens[k].uid = getStringUid(tokens[k].text)
  /\ \A k, n \in DOMAIN tokens :
       tokens[k].text = tokens[n].text /\ tokens[k].type /= EOF /\ tokens[n].type /= EOF
         => tokens[k].uid = tokens[n].uid

(* The last character of the token came through the escape path, which     *)
(* leaves the uid of the text before it in the accumulator.                *)
UidIsHashWitness ==
  /\ Returned
  /\ text = <<"a", "\\", "\"">>
  /\ tokens[1].text = text
  /\ tokens[1].uid = getStringUid(text)
  /\ tokens[1].uid /= getStringUid(<<"a", "\\">>)

(* C15: in every state every pushed token has a type of the enum other    *)
(* than Unknown, and every pushed token but EOF has a text that is not     *)
(* empty.                                                                  *)
NoUnknownOrEmptyToken ==
  \A k \in DOMAIN tokens :
    /\ tokens[k].type \in TokenType \ {Unknown}
    /\ tokens[k].type /= EOF => tokens[k].text /= <<>>

(* A String was closed and pushed: the accumulator is Unknown and empty    *)
(* while more input is to come.                                            *)
NoUnknownOrEmptyTokenWitness ==
  /\ pc = "loop"
  /\ text = <<"\"", "\"", "a">>
  /\ i = 2
  /\ token.type = Unknown
  /\ token.text = <<>>
  /\ Len(tokens) = 1
  /\ tokens[1].type = String

(* C16: a call takes the characters of the input one by one and in order  *)
(* and then returns: every step it has taken moved the index by one (the   *)
(* escape path included) but the last, which returned, and it returns at   *)
(* the end of the input only, so after Len(text) + 1 steps; what was taken *)
(* so far is the prefix of the input read so far, and the call is either   *)
(* in its loop, where the loop condition decides between the next          *)
(* iteration and the return, or has returned.                              *)
ReturnsAfterOnePass ==
  /\ pc \in {"loop", "done"}
  /\ i <= Len(text)
  /\ steps = i + (IF Returned THEN 1 ELSE 0)
  /\ Returned => i = Len(text)
  /\ pc = "loop" => Concat(tokens) \o token.text = SubSeq(text, 1, i)

(* The call returned after a step through the escape path.                 *)
ReturnsAfterOnePassWitness ==
  /\ Returned
  /\ text = <<"\"", "\\", "\"", "a">>
  /\ i = 4
  /\ steps = 5
  /\ Len(tokens) >= 1
  /\ tokens[1].text = text

ColumnCounter ==
  pos = IF i = 0 THEN 1 ELSE ColumnOf(i) + 1

(* C19: the line and pos of a token are the counters of the step that     *)
(* classified its first character, whatever came before it (the closing    *)
(* delimiter of a String, the start of the input); they stay as they are   *)
(* while the token grows, and a token is returned with them.               *)
PositionCapture ==
  [][/\ (token'.type # Unknown /\ Len(token'.text) = 1) =>
          /\ token'.line = line'
          /\ token'.pos = pos' - 1
     /\ Len(token'.text) > 1 =>
          /\ token'.line = token.line
          /\ token'.pos = token.pos
     /\ \A k \in DOMAIN tokens' :
          IF k <= Len(tokens) THEN tokens'[k] = tokens[k]
          ELSE tokens'[k].type # EOF =>
                 /\ tokens'[k].line = token.line
                 /\ tokens'[k].pos = token.pos]_vars

(* The first validator, in the order of the claim, that accepts char.      *)
FirstRule(char) ==
  IF isString(char) THEN "isString"
  ELSE IF isSpace(char) THEN "isSpace"
  ELSE IF isSeparator(char) THEN "isSeparator"
  ELSE IF isNumeric(char) THEN "isNumber"
  ELSE IF isAlpha(char) THEN "isCharacter"
  ELSE IF isOperator(char) THEN "isOperator"
  ELSE IF isNumberSeparator(char) THEN "isNumberSeparator"
  ELSE "default"

(* The type of the token a character goes into, by the rule that takes it  *)
(* and the type of the token being built.                                  *)
LandsIn(rule, char, type) ==
  CASE rule = "isString" -> String
    [] rule = "isSpace" -> Space
    [] rule = "isSeparator" ->
         IF isNumberSeparator(char) /\ type = Number THEN Number ELSE Separator
    [] rule = "isNumber" -> IF type = Identifier THEN Identifier ELSE Number
    [] rule = "isCharacter" -> IF type = Number THEN Number ELSE Identifier
    [] rule = "isOperator" -> Operator
    [] rule = "isNumberSeparator" -> IF type = Number THEN Number ELSE Identifier
    [] rule = "default" -> Identifier

(* The next character goes into the open String or follows a backslash as  *)
(* a delimiter.                                                            *)
Absorbed(char) ==
  \/ token.type = String /\ ~isString(char)
  \/ isString(char) /\ endsWith(token.text, "\\")

(* The token the last character went into: the one being built or, when    *)
(* that character closed a String, the last one pushed.                    *)
Landing == IF token.text = <<>> THEN tokens[Len(tokens)] ELSE token

(* C20: a character that is not absorbed goes, as its last character, into *)
(* a token of the type the first matching rule gives, in the order         *)
(* isString, isSpace, isSeparator, isNumber, isCharacter, isOperator,      *)
(* number separator, default: a space that is a separator into a Space, a  *)
(* separator that is a digit, a letter or an operator into a Separator (or *)
(* the current Number), a character no validator accepts into an           *)
(* Identifier.                                                             *)
RulePriority ==
  [][(pc = "loop" /\ i' = i + 1 /\ ~Absorbed(text[i'])) =>
       /\ Landing'.type = LandsIn(FirstRule(text[i']), text[i'], token.type)
       /\ Landing'.text[Len(Landing'.text)] = text[i']]_vars

(* Space, Z and backslash under the overlapping validators: a Space, a     *)
(* Separator and an Identifier.                                            *)
RulePriorityWitness ==
  /\ Returned
  /\ policy = OverlapPolicy
  /\ text = <<" ", "Z", "\\">>
  /\ Len(Emitted) = 3
  /\ Emitted[1].type = Space
  /\ Emitted[2].type = Separator
  /\ Emitted[3].type = Identifier

(* The index of the returned token that holds the j-th character of text. *)
TokenAt(j) ==
  CHOOSE k \in DOMAIN Emitted :
    /\ Offset(Emitted, k) <= j
    /\ j < Offset(Emitted, k) + Len(Emitted[k].text)

(* C21: no two neighbours among the returned tokens are both Space, both   *)
(* Separator or both Operator; a Space is made of whitespace and an        *)
(* Operator of operator characters only, and every whitespace or operator  *)
(* character outside the Strings is in a Space or an Operator: so a        *)
(* maximal run of either kind outside the Strings is exactly one token.    *)
RunsMerge ==
  Returned =>
    /\ \A k \in 1..(Len(tokens) - 1) :
         tokens[k].type \in {Space, Separator, Operator} =>
           tokens[k + 1].type /= tokens[k].type
    /\ \A k \in DOMAIN Emitted :
         /\ Emitted[k].type = Space =>
              \A n \in DOMAIN Emitted[k].text : isSpace(Emitted[k].text[n])
         /\ Emitted[k].type = Operator =>
              \A n \in DOMAIN Emitted[k].text : isOperator(Emitted[k].text[n])
    /\ \A j \in DOMAIN text :
         Emitted[TokenAt(j)].type /= String =>
           /\ isSpace(text[j]) => Emitted[TokenAt(j)].type = Space
           /\ isOperator(text[j]) => Emitted[TokenAt(j)].type = Operator

(* A space and a newline in one Space, two operators in one Operator.      *)
RunsMergeWitness ==
  /\ Returned
  /\ policy = DefaultPolicy
  /\ text = <<" ", "\n", "+", "+">>
  /\ Len(Emitted) = 2
  /\ Emitted[1].type = Space
  /\ Emitted[1].text = <<" ", "\n">>
  /\ Emitted[2].type = Operator
  /\ Emitted[2].text = <<"+", "+">>

(* C22: a String that is open is closed only by the character that       *)
(* opened it, and only when no backslash is right before it; another       *)
(* character isString accepts is appended to the open String: it pushes    *)
(* nothing and the String stays open.                                      *)
SameDelimiterCloses ==
  [][(pc = "loop" /\ i' = i + 1 /\ token.type = String) =>
       /\ Len(tokens') > Len(tokens) =>
            /\ text[i'] = token.text[1]
            /\ ~endsWith(token.text, "\\")
       /\ (isString(text[i']) /\ text[i'] /= token.text[1]) =>
            /\ tokens' = tokens
            /\ token'.type = String
            /\ token'.text = Append(token.text, text[i'])]_vars

(* "'a'" with both quotes as delimiters: the single quotes are inside the  *)
(* String the double quote opened and closed.                              *)
SameDelimiterClosesWitness ==
  /\ Returned
  /\ policy = InstructionPolicy
  /\ text = <<"\"", "'", "a", "'", "\"">>
  /\ Len(Emitted) = 1
  /\ Emitted[1].type = String
  /\ Emitted[1].text = text

(* A step asks isInstruction exactly when it pushes an Identifier          *)
(* accumulator, once, with the whole text of that token and with l and p   *)
(* as line and pos.                                                        *)
AsksOncePerIdentifier(l, p) ==
  LET pushed == /\ Len(tokens') > Len(tokens)
                /\ tokens'[Len(tokens) + 1].type /= EOF
  IN  /\ Len(calls') = Len(calls) + (IF pushed /\ token.type = Identifier THEN 1 ELSE 0)
      /\ SubSeq(calls', 1, Len(calls)) = calls
      /\ Len(calls') > Len(calls) =>
           LET c == calls'[Len(calls')]
           IN  /\ c.text = token.text
               /\ c.index = Len(tokens) + 1
               /\ tokens'[c.index].text = token.text
               /\ c.line = l
               /\ c.pos = p

(* C23 as stated: isInstruction is called once for every pushed Identifier *)
(* accumulator and for no other, with its whole text and with the line and *)
(* pos stored in that token.                                               *)
AskedWithTokenPosition ==
  [][AsksOncePerIdentifier(token.line, token.pos)]_vars

(* C23, amended: isInstruction is called once for every pushed Identifier  *)
(* accumulator and for no other, with its whole text and with the line and *)
(* pos counters as they are when the token is pushed: the ones at which    *)
(* the character that ends the token is classified or, for the final       *)
(* flush, the ones the loop ended with.                                    *)
AskedWithCounters ==
  [][AsksOncePerIdentifier(
       IF i' = i + 1 /\ text[i'] = "\n" THEN line + 1 ELSE line,
       IF i' = i + 1 /\ text[i'] = "\n" THEN 1 ELSE pos)]_vars

(* a and a newline: the validator is asked about a with line 2 and pos 1,  *)
(* the token a is at line 1 and pos 1.                                     *)
AskedWithCountersWitness ==
  /\ Returned
  /\ policy = InstructionPolicy
  /\ text = <<"a", "\n">>
  /\ Len(calls) = 1
  /\ calls[1].text = <<"a">>
  /\ calls[1].line = 2
  /\ calls[1].pos = 1
  /\ tokens[1].type = Instruction
  /\ tokens[1].line = 1
  /\ tokens[1].pos = 1

(* C24: right after pushToken has appended the accumulator, the           *)
(* accumulator is an empty Unknown token with uid 0 at the current line    *)
(* and pos; a step leaves the tokens it found as they were and at most     *)
(* appends to them; the token a step appends is the accumulator it found   *)
(* (with the closing delimiter, for a String), and the accumulator it      *)
(* leaves holds nothing of that token: it is empty or holds the character  *)
(* just classified.                                                        *)
AppendOnly ==
  [][/\ token.type /= Unknown =>
          /\ pushToken(machine).token =
               [type |-> Unknown, text |-> <<>>, uid |-> 0, line |-> line, pos |-> pos]
          /\ Len(pushToken(machine).tokens) = Len(tokens) + 1
     /\ Len(tokens') >= Len(tokens)
     /\ SubSeq(tokens', 1, Len(tokens)) = tokens
     /\ (Len(tokens') > Len(tokens) /\ tokens'[Len(tokens) + 1].type /= EOF) =>
          LET t == tokens'[Len(tokens) + 1]
              chars == IF i' = i + 1 THEN {<<text[i']>>} ELSE {}
          IN  /\ t.text \in {token.text} \cup {token.text \o c : c \in chars}
              /\ t.type \in {token.type, Instruction}
              /\ t.line = token.line
              /\ t.pos = token.pos
              /\ t.uid = getStringUid(t.text)
              /\ Len(tokens') <= Len(tokens) + 2
              /\ Len(tokens') = Len(tokens) + 2 => tokens'[Len(tokens')].type = EOF
              /\ token'.text \in {<<>>} \cup chars
              /\ token'.text = <<>> => token'.uid = 0
              /\ token'.line = line'
              /\ (i' = i + 1 /\ token'.text = <<>>) => token'.type = Unknown]_vars

(* "a"+ : the String was appended when its closing quote came, leaving an  *)
(* empty accumulator, and is unchanged after the Operator behind it.       *)
AppendOnlyWitness ==
  /\ Returned
  /\ text = <<"\"", "a", "\"", "+">>
  /\ Len(Emitted) = 2
  /\ Emitted[1].type = String
  /\ Emitted[1].text = <<"\"", "a", "\"">>
  /\ Emitted[1].uid = getStringUid(Emitted[1].text)
  /\ Emitted[2].type = Operator
  /\ token.text = <<>>

(* Every String among the tokens starts with a delimiter and either ends  *)
(* with the same one, two characters or more long, or is the last token    *)
(* but EOF of the returned ones.                                           *)
StringsClosedOrLast ==
  \A k \in DOMAIN Emitted :
    Emitted[k].type = String =>
      LET t == Emitted[k].text
      IN  /\ Len(t) >= 1
          /\ isString(t[1])
          /\ \/ Len(t) >= 2 /\ t[Len(t)] = t[1]
             \/ Returned /\ k = Len(Emitted)

(* C25: the Strings among the tokens are closed or the last one returned,  *)
(* and a character that is no delimiter never pushes a String accumulator: *)
(* it is appended to it.                                                   *)
StringsWellFormed ==
  [][/\ StringsClosedOrLast'
     /\ (pc = "loop" /\ i' = i + 1 /\ token.type = String /\ ~isString(text[i'])) =>
          /\ tokens' = tokens
          /\ token'.type = String
          /\ token'.text = Append(token.text, text[i'])]_vars

(* "a"" : a String that took a letter and was closed by its delimiter,    *)
(* and an unterminated String behind it.                                   *)
StringsWellFormedWitness ==
  /\ Returned
  /\ text = <<"\"", "a", "\"", "\"">>
  /\ Len(Emitted) = 2
  /\ Emitted[1].type = String
  /\ Emitted[1].text = <<"\"", "a", "\"">>
  /\ Emitted[2].type = String
  /\ Emitted[2].text = <<"\"">>

====
